---- MODULE Spec2Model ----
(***************************************************************************)
(* The CRAFT forecasting demo notebook                                     *)
(* (src/convokit/forecaster/CRAFT/demos/craft_demo.ipynb) as a state       *)
(* machine: one action per code cell (the tokenization loop one action per *)
(* iteration), the kernel's globals as the variables.  A cell that raises  *)
(* stops the run (pc = "error") and leaves what it had already assigned.   *)
(*                                                                         *)
(* Python indexes lists from 0 and TLA+ sequences from 1: the utterance at *)
(* Python index idx is utts[idx + 1] here, and every idx below is the      *)
(* Python index.  Scores are probabilities in millionths, so that          *)
(* FORECAST_THRESH = 0.570617 is the integer 570617.  Ratios (np.mean,     *)
(* precision, recall) are kept as [num, den] and compared by cross         *)
(* multiplication.                                                         *)
(*                                                                         *)
(* Spec runs the whole notebook over every small corpus.  HistSpec runs    *)
(* the plotting cell alone, from the states the cells before it leave for  *)
(* corpora of derailing test conversations long enough to give the         *)
(* histogram several bins.  TextSpec runs the tokenization and the         *)
(* transform over one utterance of up to MaxTokens tokens, which is where  *)
(* text_func's truncation shows.                                           *)
(***************************************************************************)
EXTENDS Integers, Sequences, FiniteSets, TLC

VARIABLES pc, raised, log, corpus, craft_model, cursor, forecaster,
          selected, ignored, preds, labels, evaluated, metrics,
          comments_until_derail, hist, model_input

vars == <<pc, raised, log, corpus, craft_model, cursor, forecaster,
          selected, ignored, preds, labels, evaluated, metrics,
          comments_until_derail, hist, model_input>>

\* ------------------------------------------------------------------ bounds

\* The most conversations a corpus holds.
MaxConvos == 2

\* The most utterances a corpus holds, over all its conversations.
MaxUtts == 3

\* HistSpec: the most derailing test conversations, and the largest number of
\* comments between a first positive forecast and the derailment.
MaxDerailing == 3

MaxValue == 4

\* TextSpec: the most tokens an utterance has, past MAX_LENGTH.
MaxTokens == 81

\* ---------------------------------------------------------------- metadata

\* A metadata entry of an utterance: missing from utt.meta, None, or a value.
Absent == [tag |-> "absent", val |-> 0]

None == [tag |-> "None", val |-> 0]

Float(v) == [tag |-> "float", val |-> v]

Tokens(t) == [tag |-> "list", val |-> t]

FORECAST_THRESH == 570617

\* The scores the model can produce that the threshold tells apart: one at
\* the threshold, one above it.
Scores == {FORECAST_THRESH, FORECAST_THRESH + 1}

Splits == {"train", "test"}

\* craft_tokenize(voc, text): the text's words, in order.
craft_tokenize(voc, text) == text

\* ------------------------------------------------------------ corpus shape

RECURSIVE SumLens(_)
SumLens(l) == IF l = <<>> THEN 0 ELSE l[1] + SumLens(Tail(l))

\* The utterance counts of a corpus's conversations, within the bounds.
Shapes ==
    { l \in UNION { [1..n -> 1..MaxUtts] : n \in 1..MaxConvos } :
        SumLens(l) <= MaxUtts }

Positions(l) == { <<c, u>> \in (1..Len(l)) \X (1..MaxUtts) : u <= l[c] }

\* The corpus as downloaded: no utterance has tokens or a pred_score yet.
MakeCorpus(l, hdr, split, attack) ==
    [c \in 1..Len(l) |->
        [id |-> c,
         split |-> split[c],
         conversation_has_personal_attack |-> attack[c],
         utts |-> [u \in 1..l[c] |->
                     [text |-> <<c, u>>,
                      is_section_header |-> hdr[<<c, u>>],
                      tokens |-> Absent,
                      pred_score |-> Absent]]]]

TotalUtts(corp) == SumLens([c \in 1..Len(corp) |-> Len(corp[c].utts)])

\* corpus.iter_utterances(): the k-th utterance's place, conversation by
\* conversation.
RECURSIVE Locate(_, _, _)
Locate(corp, c, k) ==
    IF k <= Len(corp[c].utts) THEN <<c, k>>
    ELSE Locate(corp, c + 1, k - Len(corp[c].utts))

AllUtterances(corp) ==
    UNION { { <<c, u>> : u \in 1..Len(corp[c].utts) } : c \in 1..Len(corp) }

\* ------------------------------------------------------------------- cells

Order == <<"load_corpus", "load_model", "tokenize", "init_forecaster",
           "transform", "summarize", "aggregate", "metrics",
           "derail_scan", "plot">>

NoError == [cell |-> "", exc |-> ""]

Raise(cell, exc) ==
    /\ pc' = "error"
    /\ raised' = [cell |-> cell, exc |-> exc]
    /\ log' = log

Finish(cell, next) ==
    /\ pc' = next
    /\ raised' = raised
    /\ log' = Append(log, cell)

Init ==
    /\ pc = "load_corpus"
    /\ raised = NoError
    /\ log = <<>>
    /\ corpus = <<>>
    /\ craft_model = "unset"
    /\ cursor = 0
    /\ forecaster = "unset"
    /\ selected = {}
    /\ ignored = {}
    /\ preds = <<>>
    /\ labels = <<>>
    /\ evaluated = <<>>
    /\ metrics = <<>>
    /\ comments_until_derail = <<>>
    /\ hist = <<>>
    /\ model_input = <<>>

\* Cell 2: corpus = Corpus(filename=download(...)).
LoadCorpus ==
    /\ pc = "load_corpus"
    /\ \/ /\ \E l \in Shapes :
                \E hdr \in [Positions(l) -> BOOLEAN] :
                  \E split \in [1..Len(l) -> Splits] :
                    \E attack \in [1..Len(l) -> BOOLEAN] :
                      corpus' = MakeCorpus(l, hdr, split, attack)
          /\ Finish("load_corpus", "load_model")
       \/ /\ Raise("load_corpus", "DownloadError")
          /\ corpus' = corpus
    /\ UNCHANGED <<craft_model, cursor, forecaster, selected, ignored, preds,
                   labels, evaluated, metrics, comments_until_derail, hist, model_input>>

\* Cell 4: craft_model = CRAFTModel(device_type=DEVICE).
LoadModel ==
    /\ pc = "load_model"
    /\ \/ /\ craft_model' = "voc"
          /\ Finish("load_model", "tokenize")
       \/ /\ Raise("load_model", "ModelLoadError")
          /\ craft_model' = craft_model
    /\ UNCHANGED <<corpus, cursor, forecaster, selected, ignored, preds,
                   labels, evaluated, metrics, comments_until_derail, hist, model_input>>

\* The for loop of cell 5 ends when corpus.iter_utterances() is exhausted.
TokenizeDone_Early(k) == k >= TotalUtts(corpus) - 1

TokenizeDone(k) == k >= TotalUtts(corpus)

\* Cell 5, one iteration: utt.add_meta("tokens", craft_tokenize(voc, text)).
TokenizeStep ==
    /\ pc = "tokenize"
    /\ cursor < TotalUtts(corpus)
    /\ LET at == Locate(corpus, 1, cursor + 1)
           utt == corpus[at[1]].utts[at[2]]
       IN corpus' = [corpus EXCEPT ![at[1]].utts[at[2]].tokens =
                        Tokens(craft_tokenize(craft_model, utt.text))]
    /\ cursor' = cursor + 1
    /\ IF TokenizeDone(cursor + 1)
       THEN Finish("tokenize", "init_forecaster")
       ELSE UNCHANGED <<pc, raised, log>>
    /\ UNCHANGED <<craft_model, forecaster, selected, ignored, preds, labels,
                   evaluated, metrics, comments_until_derail, hist, model_input>>

MAX_LENGTH == 80

\* A Python slice t[:k], k >= 0: the first k items of t, or all of t when it
\* has fewer.
PySliceTo(t, k) == [i \in 1..(IF Len(t) < k THEN Len(t) ELSE k) |-> t[i]]

\* The text_func of cell 6: lambda utt: utt.meta["tokens"][:(MAX_LENGTH-1)].
\* The lookup raises KeyError on an utterance with no 'tokens' entry.
text_func_OffByOne(utt) ==
    IF utt.tokens.tag = "absent" THEN [tag |-> "KeyError", val |-> <<>>]
    ELSE Tokens(PySliceTo(utt.tokens.val, MAX_LENGTH))

text_func(utt) ==
    IF utt.tokens.tag = "absent" THEN [tag |-> "KeyError", val |-> <<>>]
    ELSE Tokens(PySliceTo(utt.tokens.val, MAX_LENGTH - 1))

\* Cell 6: forecaster = Forecaster(forecaster_model=craft_model, ...).
InitForecaster ==
    /\ pc = "init_forecaster"
    /\ forecaster' = "ready"
    /\ Finish("init_forecaster", "transform")
    /\ UNCHANGED <<corpus, craft_model, cursor, selected, ignored, preds,
                   labels, evaluated, metrics, comments_until_derail, hist, model_input>>

\* The selector of cell 7: lambda convo: convo.meta["split"] in ['test'].
TransformSelector(convo) == convo.split \in {"test"}

\* The utterance filter of cell 7: lambda utt: utt.meta['is_section_header'].
IgnoreUtterances(utt) == utt.is_section_header

\* The utterances Forecaster.transform makes a forecast for: those of the
\* selected conversations that are not ignored.
Forecasted(selector, ignore_utterances) ==
    { p \in AllUtterances(corpus) : selector[p[1]] /\ ~ignore_utterances[p] }

\* Forecaster.transform(corpus, selector, ignore_utterances): every utterance
\* of a selected conversation that is not ignored gets a pred_score, a score
\* or None (no forecast could be made for it); the utterances it makes no
\* forecast for get None or are left as they were, the same for all of them.
\* The model is handed text_func's result for each utterance it forecasts.
\* The lambdas are passed as the tables of their answers.
ForecasterTransform(selector, ignore_utterances, text) ==
    LET sel == { c \in 1..Len(corpus) : selector[c] }
        ign == { p \in AllUtterances(corpus) :
                    p[1] \in sel /\ ignore_utterances[p] }
        fc == Forecasted(selector, ignore_utterances)
    IN /\ \E score \in [fc -> {None} \cup { Float(v) : v \in Scores }] :
            \E skip \in {None, Absent} :
              corpus' =
                [c \in 1..Len(corpus) |->
                    [corpus[c] EXCEPT !.utts =
                        [u \in 1..Len(corpus[c].utts) |->
                            [corpus[c].utts[u] EXCEPT !.pred_score =
                                IF <<c, u>> \in fc THEN score[<<c, u>>]
                                ELSE IF skip = Absent THEN @ ELSE skip]]]]
       /\ selected' = sel
       /\ ignored' = ign
       /\ model_input' = [p \in fc |-> text[p].val]

\* Cell 7: forecaster.transform(corpus, selector=..., ignore_utterances=...),
\* with the text_func the forecaster was built with.  A text_func that raises
\* ends the cell before anything is annotated.
Transform ==
    /\ pc = "transform"
    /\ LET selector == [c \in 1..Len(corpus) |-> TransformSelector(corpus[c])]
           ignore_utterances ==
               [p \in AllUtterances(corpus) |->
                   IgnoreUtterances(corpus[p[1]].utts[p[2]])]
           text == [p \in AllUtterances(corpus) |->
                       text_func(corpus[p[1]].utts[p[2]])]
       IN IF \E p \in Forecasted(selector, ignore_utterances) :
                 text[p].tag = "KeyError"
          THEN /\ Raise("transform", "KeyError")
               /\ UNCHANGED <<corpus, selected, ignored, model_input>>
          ELSE /\ ForecasterTransform(selector, ignore_utterances, text)
               /\ Finish("transform", "summarize")
    /\ UNCHANGED <<craft_model, cursor, forecaster, preds, labels, evaluated,
                   metrics, comments_until_derail, hist>>

\* Cell 8: df = forecaster.summarize(corpus); df is not used again.
Summarize ==
    /\ pc = "summarize"
    /\ Finish("summarize", "aggregate")
    /\ UNCHANGED <<corpus, craft_model, cursor, forecaster, selected, ignored,
                   preds, labels, evaluated, metrics, comments_until_derail,
                   hist, model_input>>

\* corpus.iter_conversations(selector): the ids it yields, in corpus order;
\* the selector is passed as the table of its answers.
IterConversations(selector) ==
    LET F[i \in 0..Len(corpus)] ==
            IF i = 0 THEN <<>>
            ELSE IF selector[i] THEN Append(F[i - 1], i) ELSE F[i - 1]
    IN F[Len(corpus)]

\* The selector of cell 9: lambda c: c.meta['split'] == 'test'.
EvalSelector_All(c) == TRUE

EvalSelector(c) == c.split = "test"

\* The conversations cell 9 iterates over.
TestSplit == [c \in 1..Len(corpus) |-> EvalSelector(corpus[c])]

\* The test of cell 9 on one utterance's pred_score:
\* utt.meta['pred_score'] is not None and utt.meta['pred_score'] > FORECAST_THRESH.
Cell9Test_GE(score) ==
    IF score = Absent THEN "KeyError"
    ELSE IF score # None /\ score.val >= FORECAST_THRESH THEN "positive"
    ELSE "negative"

Cell9Test_Unguarded(score) ==
    IF score = Absent THEN "KeyError"
    ELSE IF score = None THEN "TypeError"
    ELSE IF score.val > FORECAST_THRESH THEN "positive"
    ELSE "negative"

Cell9Test(score) ==
    IF score = Absent THEN "KeyError"
    ELSE IF score # None /\ score.val > FORECAST_THRESH THEN "positive"
    ELSE "negative"

\* The inner loop of cell 9 over convo.iter_utterances(), section headers
\* included: the prediction, or the exception that ended it.
AggregateConvo(utts) ==
    LET R[k \in 0..Len(utts)] ==
            IF k = 0 THEN [exc |-> "", prediction |-> 0]
            ELSE LET prev == R[k - 1]
                     t == Cell9Test(utts[k].pred_score)
                 IN IF prev.exc # "" THEN prev
                    ELSE IF t \in {"KeyError", "TypeError"}
                         THEN [prev EXCEPT !.exc = t]
                    ELSE IF t = "positive"
                         THEN [prev EXCEPT !.prediction = 1]
                    ELSE prev
    IN R[Len(utts)]

BoolToInt(b) == IF b THEN 1 ELSE 0

\* The outer loop of cell 9: the label is appended before the utterances are
\* read, the prediction after.
RECURSIVE AggregateFrom(_, _)
AggregateFrom(ids, acc) ==
    IF ids = <<>> THEN acc
    ELSE LET convo == corpus[Head(ids)]
             r == AggregateConvo(convo.utts)
             lab == Append(acc.labels,
                           BoolToInt(convo.conversation_has_personal_attack))
         IN IF r.exc # ""
            THEN [acc EXCEPT !.labels = lab, !.exc = r.exc]
            ELSE AggregateFrom(Tail(ids),
                    [acc EXCEPT !.labels = lab,
                                !.preds = Append(@, r.prediction),
                                !.evaluated = Append(@, Head(ids))])

\* Cell 9: the conversation-level predictions and labels of the test split.
Aggregate ==
    /\ pc = "aggregate"
    /\ LET r == AggregateFrom(IterConversations(TestSplit),
                    [preds |-> <<>>, labels |-> <<>>, evaluated |-> <<>>,
                     exc |-> ""])
       IN /\ preds' = r.preds
          /\ labels' = r.labels
          /\ evaluated' = r.evaluated
          /\ IF r.exc # "" THEN Raise("aggregate", r.exc)
             ELSE Finish("aggregate", "metrics")
    /\ UNCHANGED <<corpus, craft_model, cursor, forecaster, selected, ignored,
                   metrics, comments_until_derail, hist, model_input>>

\* ----------------------------------------------------------------- metrics

Count(S) == Cardinality(S)

\* np.mean(preds == labels): the share of positions where the two agree.
np_mean_eq_Differ(a, b) ==
    [num |-> Count({ i \in 1..Len(a) : a[i] # b[i] }), den |-> Len(a)]

np_mean_eq(a, b) ==
    [num |-> Count({ i \in 1..Len(a) : a[i] = b[i] }), den |-> Len(a)]

\* np.mean(a[b == 0]): the mean of a's entries where b is 0.
np_mean_where_zero_One(a, b) ==
    [num |-> Count({ i \in 1..Len(a) : b[i] = 1 /\ a[i] = 1 }),
     den |-> Count({ i \in 1..Len(a) : b[i] = 1 })]

np_mean_where_zero(a, b) ==
    [num |-> Count({ i \in 1..Len(a) : b[i] = 0 /\ a[i] = 1 }),
     den |-> Count({ i \in 1..Len(a) : b[i] = 0 })]

\* sklearn.metrics.precision_recall_fscore_support(y_true, y_pred,
\* average='binary'): precision is over the positives of its SECOND argument,
\* recall over the positives of its FIRST.  A ratio with denominator 0 is
\* reported as 0 (with a warning).
precision_recall_fscore_support(y_true, y_pred) ==
    LET tp == Count({ i \in 1..Len(y_true) : y_true[i] = 1 /\ y_pred[i] = 1 })
        pred_pos == Count({ i \in 1..Len(y_pred) : y_pred[i] = 1 })
        true_pos == Count({ i \in 1..Len(y_true) : y_true[i] = 1 })
    IN [precision |-> [num |-> tp, den |-> pred_pos],
        recall |-> [num |-> tp, den |-> true_pos],
        f1 |-> [num |-> 2 * tp, den |-> pred_pos + true_pos]]

\* The values cell 10 computes; the scikit-learn call passes preds first and
\* labels second.
MetricsOf(p, l) ==
    LET prf == precision_recall_fscore_support(p, l)
    IN [acc |-> np_mean_eq(p, l),
        precision |-> prf.precision,
        recall |-> prf.recall,
        f1 |-> prf.f1,
        fpr |-> np_mean_where_zero(p, l)]

\* Cell 10: acc, precision, recall, f1 and fpr.
Metrics ==
    /\ pc = "metrics"
    /\ metrics' = MetricsOf(preds, labels)
    /\ Finish("metrics", "derail_scan")
    /\ UNCHANGED <<corpus, craft_model, cursor, forecaster, selected, ignored,
                   preds, labels, evaluated, comments_until_derail, hist, model_input>>

\* ------------------------------------------------- comments until derailment

\* The selector of cell 11: split == 'test' and conversation_has_personal_attack.
DerailSelector(c) == c.split = "test" /\ c.conversation_has_personal_attack

\* The conversations cell 11 iterates over.
DerailingTest == [c \in 1..Len(corpus) |-> DerailSelector(corpus[c])]

\* utts = [utt for utt in convo.iter_utterances() if not is_section_header].
NotHeader(utt) == ~utt.is_section_header

FilterHeaders_Keep(utts) == utts

FilterHeaders(utts) == SelectSeq(utts, NotHeader)

\* The test of cell 11 on one utterance's pred_score, with no None guard:
\* utts[idx].meta['pred_score'] > FORECAST_THRESH.
Cell11Test(score) ==
    IF score = Absent THEN "KeyError"
    ELSE IF score = None THEN "TypeError"
    ELSE IF score.val > FORECAST_THRESH THEN "positive"
    ELSE "negative"

\* The scan of one conversation's filtered utterances, for idx in
\* range(1, len(utts)), stopping (break) at the first positive forecast.
ScanConvo_NoBreak(utts) ==
    LET derail_idx == Len(utts) - 1
        R[idx \in 0..derail_idx] ==
            IF idx = 0 THEN [exc |-> "", found |-> FALSE, value |-> 0]
            ELSE LET prev == R[idx - 1]
                     t == Cell11Test(utts[idx + 1].pred_score)
                 IN IF prev.exc # "" THEN prev
                    ELSE IF t \in {"KeyError", "TypeError"}
                         THEN [prev EXCEPT !.exc = t]
                    ELSE IF t = "positive"
                         THEN [prev EXCEPT !.found = TRUE,
                                           !.value = derail_idx - (idx - 1)]
                    ELSE prev
    IN IF Len(utts) = 0 THEN [exc |-> "", found |-> FALSE, value |-> 0]
       ELSE R[derail_idx]

ScanConvo(utts) ==
    LET derail_idx == Len(utts) - 1
        R[idx \in 0..derail_idx] ==
            IF idx = 0 THEN [exc |-> "", found |-> FALSE, value |-> 0]
            ELSE LET prev == R[idx - 1]
                     t == Cell11Test(utts[idx + 1].pred_score)
                 IN IF prev.exc # "" \/ prev.found THEN prev
                    ELSE IF t \in {"KeyError", "TypeError"}
                         THEN [prev EXCEPT !.exc = t]
                    ELSE IF t = "positive"
                         THEN [prev EXCEPT !.found = TRUE,
                                           !.value = derail_idx - (idx - 1)]
                    ELSE prev
    IN IF Len(utts) = 0 THEN [exc |-> "", found |-> FALSE, value |-> 0]
       ELSE R[derail_idx]

\* comments_until_derail[key] = value.
DictSet(d, key, value) ==
    [k \in DOMAIN d \cup {key} |-> IF k = key THEN value ELSE d[k]]

\* The outer loop of cell 11.
RECURSIVE ScanFrom(_, _)
ScanFrom(ids, acc) ==
    IF ids = <<>> THEN acc
    ELSE LET convo == corpus[Head(ids)]
             r == ScanConvo(FilterHeaders(convo.utts))
             d == IF r.found THEN DictSet(acc.dict, convo.id, r.value)
                  ELSE acc.dict
         IN IF r.exc # "" THEN [dict |-> d, exc |-> r.exc]
            ELSE ScanFrom(Tail(ids), [dict |-> d, exc |-> ""])

\* Cell 11: the number of comments between the first positive forecast and
\* the derailment, per derailing test conversation.
DerailScan ==
    /\ pc = "derail_scan"
    /\ LET r == ScanFrom(IterConversations(DerailingTest),
                         [dict |-> <<>>, exc |-> ""])
       IN /\ comments_until_derail' = r.dict
          /\ IF r.exc # "" THEN Raise("derail_scan", r.exc)
             ELSE Finish("derail_scan", "plot")
    /\ UNCHANGED <<corpus, craft_model, cursor, forecaster, selected, ignored,
                   preds, labels, evaluated, metrics, hist, model_input>>

\* --------------------------------------------------------------- histogram

Values(d) == { d[k] : k \in DOMAIN d }

\* np.max of a non-empty array.
np_max(S) == CHOOSE m \in S : \A v \in S : v <= m

\* range(1, stop): 1, 2, ..., stop - 1.
RangeFrom1(stop) == [i \in 1..stop - 1 |-> i]

\* np.histogram with explicit bin edges: bin i holds edges[i] <= v <
\* edges[i+1], the last bin also v = edges[i+1]; a value outside the edges is
\* in no bin.
InBin(v, edges, i) ==
    /\ edges[i] <= v
    /\ \/ v < edges[i + 1]
       \/ i = Len(edges) - 1 /\ v = edges[i + 1]

Histogram(d, edges) ==
    [i \in 1..Len(edges) - 1 |->
        Count({ k \in DOMAIN d : InBin(d[k], edges, i) })]

\* Cell 12: plt.hist(vals, bins=range(1, np.max(vals)), density=True).  np.max
\* raises on an empty array.  With fewer than two bin edges there is no bin:
\* the libraries either draw an empty histogram or raise, depending on their
\* version.
Plot ==
    /\ pc = "plot"
    /\ IF DOMAIN comments_until_derail = {}
       THEN /\ Raise("plot", "ValueError")
            /\ hist' = hist
       ELSE LET edges == RangeFrom1(np_max(Values(comments_until_derail)))
                h == [edges |-> edges,
                      counts |-> Histogram(comments_until_derail, edges)]
            IN \/ /\ hist' = h
                  /\ Finish("plot", "done")
               \/ /\ Len(edges) < 2
                  /\ hist' = hist
                  /\ Raise("plot", "ValueError")
    /\ UNCHANGED <<corpus, craft_model, cursor, forecaster, selected, ignored,
                   preds, labels, evaluated, metrics, comments_until_derail,
                   model_input>>

Next ==
    \/ LoadCorpus
    \/ LoadModel
    \/ TokenizeStep
    \/ InitForecaster
    \/ Transform
    \/ Summarize
    \/ Aggregate
    \/ Metrics
    \/ DerailScan
    \/ Plot

Spec == Init /\ [][Next]_vars

\* ---------------------------------------------------- the plotting cell alone

\* A corpus of derailing test conversations, conversation c with v[c] + 1
\* comments: no forecast for the first, a positive forecast for the second
\* (if any), scores at the threshold for the rest.  Cell 11 records v[c] for
\* it, and nothing when v[c] = 0.
HistCorpus(v) ==
    [c \in 1..Len(v) |->
        [id |-> c,
         split |-> "test",
         conversation_has_personal_attack |-> TRUE,
         utts |-> [u \in 1..v[c] + 1 |->
                     [text |-> <<c, u>>,
                      is_section_header |-> FALSE,
                      tokens |-> Tokens(craft_tokenize("voc", <<c, u>>)),
                      pred_score |-> IF u = 1 THEN None
                                     ELSE IF u = 2 THEN Float(FORECAST_THRESH + 1)
                                     ELSE Float(FORECAST_THRESH)]]]]

\* The state cells 1 to 11 leave for such a corpus.
InitHist ==
    /\ \E v \in UNION { [1..n -> 0..MaxValue] : n \in 1..MaxDerailing } :
          corpus = HistCorpus(v)
    /\ pc = "plot"
    /\ raised = NoError
    /\ log = SubSeq(Order, 1, 9)
    /\ craft_model = "voc"
    /\ cursor = TotalUtts(corpus)
    /\ forecaster = "ready"
    /\ selected = { c \in 1..Len(corpus) : TransformSelector(corpus[c]) }
    /\ ignored = {}
    /\ LET r == AggregateFrom(IterConversations(TestSplit),
                    [preds |-> <<>>, labels |-> <<>>, evaluated |-> <<>>,
                     exc |-> ""])
       IN /\ preds = r.preds
          /\ labels = r.labels
          /\ evaluated = r.evaluated
    /\ metrics = MetricsOf(preds, labels)
    /\ comments_until_derail =
          ScanFrom(IterConversations(DerailingTest),
                   [dict |-> <<>>, exc |-> ""]).dict
    /\ hist = <<>>
    /\ model_input =
          [p \in AllUtterances(corpus) |-> text_func(corpus[p[1]].utts[p[2]]).val]

NextHist == Plot

HistSpec == InitHist /\ [][NextHist]_vars

\* ------------------------------------------- tokenization and transform alone

\* A corpus of one test conversation with one comment of n words.
TextCorpus(n) ==
    <<[id |-> 1,
       split |-> "test",
       conversation_has_personal_attack |-> FALSE,
       utts |-> <<[text |-> [i \in 1..n |-> i],
                   is_section_header |-> FALSE,
                   tokens |-> Absent,
                   pred_score |-> Absent]>>]>>

\* The state cells 1 to 4 leave for such a corpus.
InitText ==
    /\ \E n \in 0..MaxTokens : corpus = TextCorpus(n)
    /\ pc = "tokenize"
    /\ raised = NoError
    /\ log = SubSeq(Order, 1, 2)
    /\ craft_model = "voc"
    /\ cursor = 0
    /\ forecaster = "unset"
    /\ selected = {}
    /\ ignored = {}
    /\ preds = <<>>
    /\ labels = <<>>
    /\ evaluated = <<>>
    /\ metrics = <<>>
    /\ comments_until_derail = <<>>
    /\ hist = <<>>
    /\ model_input = <<>>

NextText ==
    \/ TokenizeStep
    \/ InitForecaster
    \/ Transform

TextSpec == InitText /\ [][NextText]_vars

\* ------------------------------------------------------------------ claims

Done(cell) == \E i \in 1..Len(log) : log[i] = cell

Reached(cell) == Done(cell) \/ raised.cell = cell

\* A reported ratio r equals n/d (d > 0); a ratio whose own denominator is 0
\* is reported as 0.
RatioIs(r, n, d) == IF r.den = 0 THEN n = 0 ELSE r.num * d = n * r.den

TestIds == { c \in 1..Len(corpus) : corpus[c].split = "test" }

\* The i-th test conversation in corpus order.
NthTest(i) == CHOOSE c \in TestIds : Cardinality({ d \in TestIds : d < c }) = i - 1

IsPositive(score) == score.tag = "float" /\ score.val > FORECAST_THRESH

\* At least one utterance of conversation c carries a positive forecast.
HasPositive(c) ==
    \E u \in 1..Len(corpus[c].utts) : IsPositive(corpus[c].utts[u].pred_score)

Derails(c) == corpus[c].conversation_has_personal_attack

TP == Cardinality({ c \in TestIds : Derails(c) /\ HasPositive(c) })

FP == Cardinality({ c \in TestIds : ~Derails(c) /\ HasPositive(c) })

FN == Cardinality({ c \in TestIds : Derails(c) /\ ~HasPositive(c) })

TN == Cardinality({ c \in TestIds : ~Derails(c) /\ ~HasPositive(c) })

\* The same four classes counted on the vectors preds and labels.
VecCount(l, p) ==
    Cardinality({ i \in 1..Len(preds) : labels[i] = l /\ preds[i] = p })

\* C1: once cell 10 has run, the reported precision is TP/(TP+FP) and the
\* reported recall is TP/(TP+FN), whenever those denominators are non-zero,
\* with TP, FP, FN counted on preds and labels.
C1_StandardPrecisionRecall ==
    Done("metrics") =>
        /\ VecCount(1, 1) + VecCount(0, 1) > 0 =>
              RatioIs(metrics.precision, VecCount(1, 1),
                      VecCount(1, 1) + VecCount(0, 1))
        /\ VecCount(1, 1) + VecCount(1, 0) > 0 =>
              RatioIs(metrics.recall, VecCount(1, 1),
                      VecCount(1, 1) + VecCount(1, 0))

\* C2: the prediction appended for a test conversation is 1 exactly when one
\* of its utterances has a pred_score that is a number strictly above
\* FORECAST_THRESH, and 0 otherwise; when the loop completes every test
\* conversation has its prediction.
C2_PredictionIffPositive ==
    /\ Len(preds) <= Cardinality(TestIds)
    /\ \A i \in 1..Len(preds) :
          preds[i] = IF HasPositive(NthTest(i)) THEN 1 ELSE 0
    /\ Done("aggregate") => Len(preds) = Cardinality(TestIds)

\* C2's case: a completed aggregation with a 1 and a 0, the 0 for a
\* conversation holding both a score equal to the threshold and a None.
C2_Witness ==
    /\ Done("aggregate")
    /\ \E i, j \in 1..Len(preds) :
          /\ preds[i] = 1
          /\ preds[j] = 0
          /\ \E u, w \in 1..Len(corpus[NthTest(j)].utts) :
                /\ corpus[NthTest(j)].utts[u].pred_score = Float(FORECAST_THRESH)
                /\ corpus[NthTest(j)].utts[w].pred_score = None

\* C3: the reported accuracy is (TP+TN)/N over the N test conversations, each
\* of which is in exactly one of the classes TP, FP, FN, TN given by its
\* label and its aggregated prediction.
C3_AccuracyIsTPTNoverN ==
    Done("metrics") =>
        /\ metrics.acc = [num |-> TP + TN, den |-> Cardinality(TestIds)]
        /\ TP + FP + FN + TN = Cardinality(TestIds)

\* C3's case: two test conversations, one of them classified correctly.
C3_Witness ==
    /\ Done("metrics")
    /\ Cardinality(TestIds) = 2
    /\ TP + TN = 1

\* C4: the reported false positive rate is FP/(FP+TN) whenever some test
\* conversation has label 0.
C4_FprIsFPoverNegatives ==
    (Done("metrics") /\ FP + TN > 0) => RatioIs(metrics.fpr, FP, FP + TN)

\* C4's case: two test conversations with label 0, one a false positive.
C4_Witness ==
    /\ Done("metrics")
    /\ FP = 1
    /\ TN = 1

\* The cell that runs next once the cells of log have completed.
NextCell == IF Len(log) < Len(Order) THEN Order[Len(log) + 1] ELSE "done"

\* C5: the cells complete in the fixed order of the notebook, none starting
\* before the one before it completed; the transform only starts once every
\* utterance has tokens, and the aggregation only once the transform returned.
C5_StepsInOrder ==
    /\ \A i \in 1..Len(log) : i <= Len(Order) /\ log[i] = Order[i]
    /\ pc # "error" => pc = NextCell
    /\ pc = "error" => raised.cell = NextCell
    /\ (pc = "transform" \/ Reached("transform")) =>
          \A p \in AllUtterances(corpus) :
              corpus[p[1]].utts[p[2]].tokens # Absent
    /\ (pc = "aggregate" \/ Reached("aggregate")) => Done("transform")

\* C5's case: a run of all cells over a corpus of several utterances.
C5_Witness ==
    /\ pc = "done"
    /\ log = Order
    /\ TotalUtts(corpus) >= 3

\* C6: the transform's selector accepted exactly the test conversations, its
\* filter ignored exactly their section headers, and a completed evaluation
\* loop aggregated exactly the conversations the selector accepted.
C6_SameConversations ==
    /\ Done("transform") =>
          /\ selected = TestIds
          /\ ignored = { p \in AllUtterances(corpus) :
                            /\ p[1] \in TestIds
                            /\ corpus[p[1]].utts[p[2]].is_section_header }
    /\ Done("aggregate") =>
          { evaluated[i] : i \in 1..Len(evaluated) } = selected

\* C6's case: a completed evaluation of a corpus with a test conversation
\* holding a section header and a conversation outside the test split.
C6_Witness ==
    /\ Done("aggregate")
    /\ selected # {}
    /\ selected # 1..Len(corpus)
    /\ ignored # {}

\* The conversations cell 11 scans.
DerailIds == { c \in TestIds : Derails(c) }

\* Conversation c's utterances without its section headers, in order.
Comments(c) ==
    LET keep == { u \in 1..Len(corpus[c].utts) :
                     ~corpus[c].utts[u].is_section_header }
        Nth[i \in 1..Cardinality(keep)] ==
            CHOOSE u \in keep : Cardinality({ w \in keep : w < u }) = i - 1
    IN [i \in 1..Cardinality(keep) |-> corpus[c].utts[Nth[i]]]

\* The Python indexes 1..len-1 of c's comments with a positive forecast.
PositiveIdx(c) ==
    { idx \in 1..Len(Comments(c)) - 1 :
         IsPositive(Comments(c)[idx + 1].pred_score) }

Unusable(score) == score = None \/ score = Absent

\* Cell 11 meets, in conversation c, a pred_score that is None or missing
\* before it meets a positive forecast.
HitsUnusable(c) ==
    \E idx \in 1..Len(Comments(c)) - 1 :
        /\ Unusable(Comments(c)[idx + 1].pred_score)
        /\ \A j \in PositiveIdx(c) : j > idx

\* C7 as stated: no step guards against a pred_score that is None or missing
\* on an utterance it reads, so a step that read one did not complete.
C7_NothingGuarded ==
    Done("aggregate") =>
        \A c \in TestIds : \A u \in 1..Len(corpus[c].utts) :
            ~Unusable(corpus[c].utts[u].pred_score)

\* C7 (amended): nothing is caught, and a raised error ends the run at the
\* cell that hit it.  A missing pred_score raises from the cell that reads it
\* (KeyError).  A None pred_score raises only from cell 11 (TypeError); cell 9
\* guards it with "is not None" and completes, counting it as no positive
\* forecast.
C7_OnlyCell9GuardsNone ==
    /\ (pc = "error") <=> (raised # NoError)
    /\ pc = "error" => raised.cell = NextCell /\ ~Done(raised.cell)
    /\ Reached("aggregate") =>
          /\ raised.cell = "aggregate" <=>
                \E c \in TestIds : \E u \in 1..Len(corpus[c].utts) :
                    corpus[c].utts[u].pred_score = Absent
          /\ raised.cell = "aggregate" => raised.exc = "KeyError"
    /\ Reached("derail_scan") =>
          /\ raised.cell = "derail_scan" <=> \E c \in DerailIds : HitsUnusable(c)
          /\ raised.cell = "derail_scan" => raised.exc \in {"KeyError", "TypeError"}

\* C7's case: cell 9 completed over a None pred_score and cell 11 raised a
\* TypeError on it.
C7_Witness ==
    /\ Done("aggregate")
    /\ raised = [cell |-> "derail_scan", exc |-> "TypeError"]
    /\ \E c \in DerailIds : \E idx \in 1..Len(Comments(c)) - 1 :
          Comments(c)[idx + 1].pred_score = None

\* C8: a value recorded in comments_until_derail belongs to a derailing test
\* conversation and is (len(utts)-1) - (idx-1) for the smallest idx in
\* 1..len(utts)-1 with a pred_score strictly above FORECAST_THRESH, utts being
\* the conversation's utterances without section headers; a later positive
\* forecast does not change it.
C8_FirstPositiveForecast ==
    \A c \in DOMAIN comments_until_derail :
        /\ c \in DerailIds
        /\ PositiveIdx(c) # {}
        /\ \E idx \in PositiveIdx(c) :
              /\ \A j \in PositiveIdx(c) : idx <= j
              /\ comments_until_derail[c] = (Len(Comments(c)) - 1) - (idx - 1)

\* C8's case: a recorded conversation with two positive forecasts, the value
\* being that of the first.
C8_Witness ==
    /\ Done("derail_scan")
    /\ \E c \in DOMAIN comments_until_derail :
          /\ Cardinality(PositiveIdx(c)) = 2
          /\ comments_until_derail[c] = 2

\* C9: the histogram counts every recorded value: each value v is the left
\* edge of a bin, and that bin's count is the number of conversations with
\* value v.
C9_EveryValueCounted ==
    (Done("plot") /\ Len(hist.counts) >= 1) =>
        \A k \in DOMAIN comments_until_derail :
            \E i \in 1..Len(hist.counts) :
                /\ hist.edges[i] = comments_until_derail[k]
                /\ hist.counts[i] =
                      Cardinality({ k2 \in DOMAIN comments_until_derail :
                          comments_until_derail[k2] = comments_until_derail[k] })

\* C10: once cell 11 has completed, a conversation has a key in
\* comments_until_derail exactly when it is a derailing test conversation
\* with a positive forecast at Python index 1 or later of its comments.
C10_KeyIffPositive ==
    Done("derail_scan") =>
        \A c \in 1..Len(corpus) :
            c \in DOMAIN comments_until_derail <=>
                (c \in DerailIds /\ PositiveIdx(c) # {})

\* C10's case: one derailing test conversation with an entry, and another
\* whose only comment has a positive score and which has no entry.
C10_Witness ==
    /\ Done("derail_scan")
    /\ DOMAIN comments_until_derail # {}
    /\ \E c \in DerailIds :
          /\ c \notin DOMAIN comments_until_derail
          /\ Len(Comments(c)) = 1
          /\ IsPositive(Comments(c)[1].pred_score)

\* C12: what text_func hands to the model for an utterance is the prefix of
\* its 'tokens' of length min(len(tokens), MAX_LENGTH-1) = min(len(tokens), 79):
\* at most MAX_LENGTH tokens, in the same order, all of them when there are
\* at most 79; the stored 'tokens' stay the tokenization of the whole text.
C12_TextFuncPrefix ==
    /\ MAX_LENGTH - 1 = 79
    /\ Done("transform") =>
          \A p \in DOMAIN model_input :
              LET utt == corpus[p[1]].utts[p[2]]
                  t == utt.tokens.val
                  x == model_input[p]
              IN /\ Len(x) = IF Len(t) < 79 THEN Len(t) ELSE 79
                 /\ Len(x) <= MAX_LENGTH
                 /\ \A i \in 1..Len(x) : x[i] = t[i]
                 /\ Len(t) <= 79 => x = t
                 /\ t = craft_tokenize(craft_model, utt.text)
                 /\ Len(t) = Len(utt.text)

\* C12's case: an utterance of more than MAX_LENGTH tokens, handed to the
\* model as its first 79.
C12_Witness ==
    /\ Done("transform")
    /\ \E p \in DOMAIN model_input :
          /\ Len(corpus[p[1]].utts[p[2]].tokens.val) = MAX_LENGTH + 1
          /\ Len(model_input[p]) = 79

\* C13: once the tokenization loop has finished, every utterance of the
\* corpus, whatever its split and section headers included, has a 'tokens'
\* entry computed from its own text with the model's vocabulary; text_func
\* never meets an utterance without one.
C13_TokensEverywhere ==
    /\ Done("tokenize") =>
          /\ craft_model = "voc"
          /\ \A p \in AllUtterances(corpus) :
                LET utt == corpus[p[1]].utts[p[2]]
                IN /\ utt.tokens.tag = "list"
                   /\ utt.tokens.val = craft_tokenize("voc", utt.text)
    /\ raised # [cell |-> "transform", exc |-> "KeyError"]
    /\ Done("transform") =>
          DOMAIN model_input =
              { p \in AllUtterances(corpus) :
                   /\ corpus[p[1]].split = "test"
                   /\ ~corpus[p[1]].utts[p[2]].is_section_header }

\* C13's case: a completed transform over a corpus with a conversation
\* outside the test split and a section header, text_func having been
\* applied to some utterance.
C13_Witness ==
    /\ Done("transform")
    /\ DOMAIN model_input # {}
    /\ \E c \in 1..Len(corpus) : corpus[c].split = "train"
    /\ \E p \in AllUtterances(corpus) : corpus[p[1]].utts[p[2]].is_section_header
    /\ \A p \in AllUtterances(corpus) : corpus[p[1]].utts[p[2]].tokens.tag = "list"

====
